---------------------------- MODULE Spec2Model ----------------------------
(***************************************************************************)
(* A model of ap_words.py: the line preprocessor (preprocess_line), the    *)
(* bracket-aware term tokenizer (listup_wordlines) and the syllabus parser *)
(* (parse_syllabus), a generator that reads a file line by line and yields *)
(* header, text and word_block blocks.                                     *)
(*                                                                         *)
(* A Python str is modelled as a sequence of characters.  A character is a *)
(* one-element string: a printable ASCII character stands for itself, any  *)
(* other character is written by its code point, "uXXXX":                  *)
(*   u000A line feed            u3000 ideographic space                    *)
(*   uFEFF byte-order mark      u200B zero-width space                     *)
(*   uFF08 / uFF09 full-width ( and )     uFF1A full-width colon           *)
(*   u3001 ideographic comma    uFF0C full-width comma                     *)
(*   uFF10..uFF19 full-width digits       u2460..u2473 circled 1..20       *)
(*   u7528 u8A9E u4F8B  the word-list keyword (yougorei)                   *)
(*   u5927 u5206 u985E  "major class"    u4E2D u5206 u985E  "middle class" *)
(***************************************************************************)
EXTENDS Integers, Sequences, FiniteSets, TLC

----------------------------------------------------------------------------
(* Character classes of Python's re (str patterns) and of str.strip().     *)

\* \d : Unicode decimal digits (ASCII and full-width ones occur here).
AsciiDigit == {"0", "1", "2", "3", "4", "5", "6", "7", "8", "9"}

\* [uFF10-uFF19]
FWDigit == {"uFF10", "uFF11", "uFF12", "uFF13", "uFF14",
            "uFF15", "uFF16", "uFF17", "uFF18", "uFF19"}

Digit == AsciiDigit \cup FWDigit

IsDigit(c) == c \in Digit

\* \s and str.strip(): Unicode white space (U+FEFF and U+200B are not).
Space == {" ", "u0009", "u000A", "u000D", "u3000"}

IsSpace(c) == c \in Space

\* [\s u3000 uFEFF u200B]
LeadingJunk == Space \cup {"u3000", "uFEFF", "u200B"}

\* [a-z]
IsLower(c) == c \in {"a", "b", "c", "d", "e", "f", "g", "h", "i", "j", "k",
                     "l", "m", "n", "o", "p", "q", "r", "s", "t", "u", "v",
                     "w", "x", "y", "z"}

\* [u2460-u2473], circled 1 to circled 20
IsCircled(c) == c \in {"u2460", "u2461", "u2462", "u2463", "u2464",
                       "u2465", "u2466", "u2467", "u2468", "u2469",
                       "u246A", "u246B", "u246C", "u246D", "u246E",
                       "u246F", "u2470", "u2471", "u2472", "u2473"}

\* [( uFF08] and [) uFF09]
IsOpenParen(c) == c \in {"(", "uFF08"}
IsCloseParen(c) == c \in {")", "uFF09"}

\* [: uFF1A]
IsColon(c) == c \in {":", "uFF1A"}

----------------------------------------------------------------------------
(* Sequence helpers.                                                       *)

Drop(s, n) == SubSeq(s, n + 1, Len(s))

Take(s, n) == SubSeq(s, 1, n)

\* s starts with the literal p at (1-based) position i
HasAt(s, i, p) ==
    /\ i >= 1
    /\ i + Len(p) - 1 <= Len(s)
    /\ SubSeq(s, i, i + Len(p) - 1) = p

\* the end (exclusive) of the longest run of characters of the set C that
\* starts at position i: the first j >= i with j > Len(s) or s[j] not in C
RunEnd(s, i, C) ==
    IF \E j \in i..Len(s) : s[j] \notin C
    THEN CHOOSE j \in i..Len(s) : s[j] \notin C /\ \A k \in i..(j - 1) : s[k] \in C
    ELSE Len(s) + 1

\* the same for the longest run of characters other than c
RunEndNot(s, i, c) ==
    IF \E j \in i..Len(s) : s[j] = c
    THEN CHOOSE j \in i..Len(s) : s[j] = c /\ \A k \in i..(j - 1) : s[k] # c
    ELSE Len(s) + 1

\* str.lstrip over a set of characters
LStripBy(s, C) == Drop(s, RunEnd(s, 1, C) - 1)

\* the length of s[1..n] without its trailing white space
RECURSIVE RStripLen(_, _)
RStripLen(s, n) ==
    IF n = 0 \/ ~IsSpace(s[n]) THEN n ELSE RStripLen(s, n - 1)

\* str.strip(): white space removed at both ends
strip(s) ==
    LET t == LStripBy(s, Space)
    IN Take(t, RStripLen(t, Len(t)))

----------------------------------------------------------------------------
(* preprocess_line                                                         *)

\* re.sub(r"\.{3,}", "...", text): every maximal run of 3 or more periods
\* becomes exactly three periods; the text is taken run by run from i on
RECURSIVE CollapseFrom(_, _)
CollapseFrom(s, i) ==
    IF i > Len(s) THEN <<>>
    ELSE IF s[i] = "."
         THEN LET e == RunEnd(s, i, {"."})
              IN (IF e - i >= 3 THEN <<".", ".", ".">> ELSE SubSeq(s, i, e - 1))
                 \o CollapseFrom(s, e)
         ELSE LET e == RunEndNot(s, i, ".")
              IN SubSeq(s, i, e - 1) \o CollapseFrom(s, e)

CollapseDots(s) == CollapseFrom(s, 1)

CopyrightMarker == <<"C", "o", "p", "y", "r", "i", "g", "h", "t", "(", "c", ")",
                     " ", "I", "n", "f", "o", "r", "m", "a", "t", "i", "o", "n">>

\* mutant: the marker is removed, the rest of the line is kept
RemoveCopyright_marker_only(s) ==
    IF HasAt(s, 1, CopyrightMarker) THEN Drop(s, Len(CopyrightMarker)) ELSE s

\* re.sub(r"^Copyright\(c\) Information.*", "", text): "." does not match a
\* line feed, so the match ends before the first one
RemoveCopyright(s) ==
    IF HasAt(s, 1, CopyrightMarker)
    THEN Drop(s, RunEndNot(s, Len(CopyrightMarker) + 1, "u000A") - 1)
    ELSE s

\* re.sub(r"^-\d{1,3}-$", "", text): "$" matches at the end and before a
\* line feed that ends the string
RemovePageNumber(s) ==
    LET e == RunEnd(s, 2, Digit)
        n == e - 2
    IN IF /\ Len(s) >= 1 /\ s[1] = "-"
          /\ n >= 1 /\ n <= 3
          /\ e <= Len(s) /\ s[e] = "-"
          /\ \/ e = Len(s)
             \/ e + 1 = Len(s) /\ s[e + 1] = "u000A"
       THEN Drop(s, e)
       ELSE s

\* mutant: the pattern takes one leading character only
RemoveLeadingJunk_one_char(s) ==
    IF s # <<>> /\ s[1] \in LeadingJunk THEN Tail(s) ELSE s

\* re.sub(r'^[\s u3000 uFEFF u200B]+', '', text)
RemoveLeadingJunk(s) == LStripBy(s, LeadingJunk)

preprocess_line(text) ==
    strip(RemoveLeadingJunk(RemovePageNumber(RemoveCopyright(CollapseDots(text)))))

----------------------------------------------------------------------------
(* listup_wordlines                                                        *)

\* mutant: the lines are joined with a line feed between them
RECURSIVE Join_newline(_)
Join_newline(lines) ==
    IF lines = <<>> THEN <<>>
    ELSE IF Len(lines) = 1 THEN Head(lines)
    ELSE Head(lines) \o <<"u000A">> \o Join_newline(Tail(lines))

\* "".join(line for line in wordlines)
RECURSIVE Join(_)
Join(lines) ==
    IF lines = <<>> THEN <<>> ELSE Head(lines) \o Join(Tail(lines))

\* char in the two delimiters u3001 and uFF0C
IsDelimiter(c) == c \in {"u3001", "uFF0C"}

\* mutant: a closing bracket always decrements the nesting level
NextDepth_unclamped(n, c) ==
    IF c \in {"uFF08", "("} THEN n + 1
    ELSE IF c \in {"uFF09", ")"} THEN n - 1
    ELSE n

\* lines 114-118: the nesting level after reading char at level n
NextDepth(n, c) ==
    IF c \in {"uFF08", "("} THEN n + 1
    ELSE IF c \in {"uFF09", ")"}
         THEN (IF n > 0 THEN n - 1 ELSE n)
         ELSE n

\* mutant: the word is appended without the test that it is not blank
AppendWord_unchecked(yougo, word) == Append(yougo, strip(word))

\* lines 122-123 and 129-130: the word is appended when it is not blank
AppendWord(yougo, word) ==
    IF strip(word) # <<>> THEN Append(yougo, strip(word)) ELSE yougo

\* mutant: a delimiter ends the word at any nesting level
ScanChar_any_depth(st, c) ==
    LET d == NextDepth(st.in_parentheses, c)
    IN IF IsDelimiter(c)
       THEN [yougo |-> AppendWord(st.yougo, st.current_word),
             current_word |-> <<>>,
             in_parentheses |-> d]
       ELSE [yougo |-> st.yougo,
             current_word |-> Append(st.current_word, c),
             in_parentheses |-> d]

\* one turn of the loop over full_text (lines 113-126); the scan state is
\* the record [yougo, current_word, in_parentheses]
ScanChar(st, c) ==
    LET d == NextDepth(st.in_parentheses, c)
    IN IF d = 0 /\ IsDelimiter(c)
       THEN [yougo |-> AppendWord(st.yougo, st.current_word),
             current_word |-> <<>>,
             in_parentheses |-> d]
       ELSE [yougo |-> st.yougo,
             current_word |-> Append(st.current_word, c),
             in_parentheses |-> d]

ScanInit == [yougo |-> <<>>, current_word |-> <<>>, in_parentheses |-> 0]

RECURSIVE Scan(_, _)
Scan(st, text) ==
    IF text = <<>> THEN st ELSE Scan(ScanChar(st, Head(text)), Tail(text))

listup_wordlines(lines) ==
    LET st == Scan(ScanInit, Join(lines))
    IN AppendWord(st.yougo, st.current_word)

----------------------------------------------------------------------------
(* The patterns of parse_syllabus.  A match is a record with the field     *)
(* matched and, when it is TRUE, the groups g1, g2, ...                    *)

NoMatch == [matched |-> FALSE]

\* mutant: no line is taken for a table-of-contents line
is_toc_absent(line) == FALSE

\* re.search(r'\s*\.{3,}\s*\d+$', line): three or more periods from some
\* position i (the run of periods taken whole), then optional white space,
\* then one or more digits up to the end of the line
is_toc(line) ==
    \E i \in 1..(Len(line) - 3) :
        /\ line[i] = "." /\ line[i + 1] = "." /\ line[i + 2] = "."
        /\ LET j == RunEnd(line, i + 3, {"."})
               k == RunEnd(line, j, Space)
           IN k <= Len(line) /\ RunEnd(line, k, Digit) = Len(line) + 1

Daibunrui == <<"u5927", "u5206", "u985E">>

Chuubunrui == <<"u4E2D", "u5206", "u985E">>

\* the part of m_class_match from the white space at position w on:
\* \s Chuubunrui (\d+|[uFF10-uFF19]+) [: uFF1A] (.+)
ChuuAt(line, w) ==
    LET d == w + 4
        e == RunEnd(line, d, Digit)
    IN /\ w >= 1 /\ w <= Len(line)
       /\ IsSpace(line[w])
       /\ HasAt(line, w + 1, Chuubunrui)
       /\ e > d
       /\ e < Len(line)
       /\ IsColon(line[e])

\* re.match(r'Daibunrui(\d+|[uFF10-uFF19]+)[: uFF1A](.+)\s+Chuubunrui(\d+|[uFF10-uFF19]+)[: uFF1A](.+)', line)
\* The first (.+) is greedy: it runs up to the last white space character
\* that the rest of the pattern can start at.
m_class_match(line) ==
    LET e1 == RunEnd(line, 4, Digit)
        W == {w \in (e1 + 2)..Len(line) : ChuuAt(line, w)}
    IN IF /\ HasAt(line, 1, Daibunrui)
          /\ e1 > 4
          /\ e1 <= Len(line)
          /\ IsColon(line[e1])
          /\ W # {}
       THEN LET w == CHOOSE x \in W : \A y \in W : y <= x
                e3 == RunEnd(line, w + 4, Digit)
            IN [matched |-> TRUE,
                g1 |-> SubSeq(line, 4, e1 - 1),
                g2 |-> SubSeq(line, e1 + 1, w - 1),
                g3 |-> SubSeq(line, w + 4, e3 - 1),
                g4 |-> Drop(line, e3)]
       ELSE NoMatch

\* re.match(r'^\s*(\d+)\.\s+(.*)', line)
m3_match(line) ==
    LET a == RunEnd(line, 1, Space)
        b == RunEnd(line, a, Digit)
        c == RunEnd(line, b + 1, Space)
    IN IF /\ b > a
          /\ b <= Len(line)
          /\ line[b] = "."
          /\ c > b + 1
       THEN [matched |-> TRUE,
             g1 |-> SubSeq(line, a, b - 1),
             g2 |-> Drop(line, c - 1)]
       ELSE NoMatch

\* re.match(r'^\s*[( uFF08](\d|[uFF10-uFF19]+)[) uFF09]\s*(.*)', line): one
\* digit of any kind, or else a run of full-width digits
m1_match(line) ==
    LET a == RunEnd(line, 1, Space)
        f == RunEnd(line, a + 1, FWDigit)
        b == IF /\ a + 2 <= Len(line)
                /\ IsDigit(line[a + 1])
                /\ IsCloseParen(line[a + 2])
             THEN a + 2
             ELSE IF f > a + 1 /\ f <= Len(line) /\ IsCloseParen(line[f])
                  THEN f
                  ELSE 0
    IN IF a <= Len(line) /\ IsOpenParen(line[a]) /\ b > 0
       THEN [matched |-> TRUE,
             g1 |-> SubSeq(line, a + 1, b - 1),
             g2 |-> Drop(line, RunEnd(line, b + 1, Space) - 1)]
       ELSE NoMatch

\* re.match(r'^\s*([u2460-u2473])\s*(.*)', line)
m2_match(line) ==
    LET a == RunEnd(line, 1, Space)
    IN IF a <= Len(line) /\ IsCircled(line[a])
       THEN [matched |-> TRUE,
             g1 |-> <<line[a]>>,
             g2 |-> Drop(line, RunEnd(line, a + 1, Space) - 1)]
       ELSE NoMatch

\* re.match(r'^\s*[( uFF08]([a-z])[) uFF09]\s*(.*)', line)
m_sub_match(line) ==
    LET a == RunEnd(line, 1, Space)
    IN IF /\ a + 2 <= Len(line)
          /\ IsOpenParen(line[a])
          /\ IsLower(line[a + 1])
          /\ IsCloseParen(line[a + 2])
       THEN [matched |-> TRUE,
             g1 |-> <<line[a + 1]>>,
             g2 |-> Drop(line, RunEnd(line, a + 3, Space) - 1)]
       ELSE NoMatch

Yougorei == <<"u7528", "u8A9E", "u4F8B">>

\* re.match(r'^\s*Yougorei(.*)', line)
m_word_start(line) ==
    LET a == RunEnd(line, 1, Space)
    IN IF HasAt(line, a, Yougorei)
       THEN [matched |-> TRUE, g1 |-> Drop(line, a + 2)]
       ELSE NoMatch

----------------------------------------------------------------------------
(* parse_syllabus: the blocks it yields and the steps of its loop body.    *)

HeaderBlock(level, text) == [type |-> "header", level |-> level, text |-> text]

TextBlock(text) == [type |-> "text", text |-> text]

WordBlock(h1, h2, wl) ==
    [type |-> "word_block", h1 |-> h1, h2 |-> h2, words |-> listup_wordlines(wl)]

\* mutant: a numbered-section header no longer counts as a header
is_header_or_class_no_m3(l) ==
    \/ m_class_match(l).matched
    \/ m1_match(l).matched
    \/ m2_match(l).matched
    \/ m_sub_match(l).matched

\* mutant: a lettered subitem no longer counts as a header
is_header_or_class_no_sub(l) ==
    \/ m_class_match(l).matched
    \/ m3_match(l).matched
    \/ m1_match(l).matched
    \/ m2_match(l).matched

\* line 164
is_header_or_class(l) ==
    \/ m_class_match(l).matched
    \/ m3_match(l).matched
    \/ m1_match(l).matched
    \/ m2_match(l).matched
    \/ m_sub_match(l).matched

\* line 165: the open word list is closed by this line
ClosesCapture(l, wl) ==
    wl # <<>> /\ (is_header_or_class(l) \/ m_word_start(l).matched)

\* mutant: the flush takes the first captured fragment only
Flushed_first_only(closes, wl, h1, h2) ==
    IF closes THEN <<WordBlock(h1, h2, <<wl[1]>>)>> ELSE <<>>

\* lines 165-166: what is yielded before the line itself is handled
Flushed(closes, wl, h1, h2) ==
    IF closes THEN <<WordBlock(h1, h2, wl)>> ELSE <<>>

\* mutant: the buffer is not cleared after the flush
AfterFlush_keep(closes, wl) == wl

\* line 167
AfterFlush(closes, wl) == IF closes THEN <<>> ELSE wl

\* lines 170-192: the branch of the if/elif chain the line takes, given the
\* word list as it is after the flush
Branch(l, wl) ==
    IF m_class_match(l).matched THEN "class"
    ELSE IF m3_match(l).matched THEN "m3"
    ELSE IF m1_match(l).matched THEN "m1"
    ELSE IF m2_match(l).matched THEN "m2"
    ELSE IF m_sub_match(l).matched THEN "sub"
    ELSE IF m_word_start(l).matched THEN "word_start"
    ELSE IF wl # <<>> THEN "capture"
    ELSE "text"

\* lines 171, 176: h1txt after the line took branch b
NextH1(b, l, h1) ==
    CASE b = "class" -> <<>>
      [] b = "m3" -> strip(m3_match(l).g2)
      [] OTHER -> h1

\* mutant: a numbered-section header does not clear h2txt
NextH2_no_reset(b, l, h2) ==
    CASE b = "class" -> <<>>
      [] b = "m1" -> strip(m1_match(l).g2)
      [] OTHER -> h2

\* mutant: a circled-numeral header writes h2txt
NextH2_m2_sets(b, l, h2) ==
    CASE b = "class" -> <<>>
      [] b = "m3" -> <<>>
      [] b = "m1" -> strip(m1_match(l).g2)
      [] b = "m2" -> strip(m2_match(l).g2)
      [] OTHER -> h2

\* lines 171, 177, 180: h2txt after the line took branch b
NextH2(b, l, h2) ==
    CASE b = "class" -> <<>>
      [] b = "m3" -> <<>>
      [] b = "m1" -> strip(m1_match(l).g2)
      [] OTHER -> h2

\* lines 172-174: the level 1 header, with its link text and full title
ClassBlock(l) ==
    LET m == m_class_match(l)
        link_text == Chuubunrui \o m.g3 \o <<"uFF1A">> \o strip(m.g4)
        full_title == Daibunrui \o m.g1 \o <<"uFF1A">> \o strip(m.g2)
                      \o <<" ">> \o link_text
    IN [type |-> "header", level |-> 1, text |-> link_text,
        full_title |-> full_title]

\* mutant: a lettered subitem yields nothing
Yielded_sub_silent(b, l) ==
    CASE b = "class" -> <<ClassBlock(l)>>
      [] b = "m3" ->
            LET m == m3_match(l)
            IN <<HeaderBlock(2, m.g1 \o <<".", " ">> \o strip(m.g2))>>
      [] b = "m1" ->
            LET m == m1_match(l)
            IN <<HeaderBlock(3, <<"(">> \o m.g1 \o <<")", " ">> \o strip(m.g2))>>
      [] b = "m2" ->
            LET m == m2_match(l)
            IN <<HeaderBlock(4, m.g1 \o <<" ">> \o strip(m.g2))>>
      [] b = "text" -> <<TextBlock(l)>>
      [] OTHER -> <<>>

\* mutant: the level 3 header keeps the line as written
Yielded_m1_raw(b, l) ==
    CASE b = "class" -> <<ClassBlock(l)>>
      [] b = "m3" ->
            LET m == m3_match(l)
            IN <<HeaderBlock(2, m.g1 \o <<".", " ">> \o strip(m.g2))>>
      [] b = "m1" -> <<HeaderBlock(3, l)>>
      [] b = "m2" ->
            LET m == m2_match(l)
            IN <<HeaderBlock(4, m.g1 \o <<" ">> \o strip(m.g2))>>
      [] b = "sub" -> <<TextBlock(l)>>
      [] b = "text" -> <<TextBlock(l)>>
      [] OTHER -> <<>>

\* lines 174, 178, 181, 184, 186, 192: what the line itself yields in branch b
Yielded(b, l) ==
    CASE b = "class" -> <<ClassBlock(l)>>
      [] b = "m3" ->
            LET m == m3_match(l)
            IN <<HeaderBlock(2, m.g1 \o <<".", " ">> \o strip(m.g2))>>
      [] b = "m1" ->
            LET m == m1_match(l)
            IN <<HeaderBlock(3, <<"(">> \o m.g1 \o <<")", " ">> \o strip(m.g2))>>
      [] b = "m2" ->
            LET m == m2_match(l)
            IN <<HeaderBlock(4, m.g1 \o <<" ">> \o strip(m.g2))>>
      [] b = "sub" -> <<TextBlock(l)>>
      [] b = "text" -> <<TextBlock(l)>>
      [] OTHER -> <<>>

\* mutant: a line read while capturing is not kept
NextWordlines_drop(b, l, wl) ==
    CASE b = "word_start" -> Append(wl, strip(m_word_start(l).g1))
      [] OTHER -> wl

\* lines 188, 190: the word list after the line took branch b
NextWordlines(b, l, wl) ==
    CASE b = "word_start" -> Append(wl, strip(m_word_start(l).g1))
      [] b = "capture" -> Append(wl, l)
      [] OTHER -> wl

----------------------------------------------------------------------------
(* State.                                                                  *)

VARIABLES
    h1txt,           \* parse_syllabus: the heading context (line 139)
    h2txt,           \*                                     (line 140)
    wordlines,       \* the capture buffer (line 141); non-empty = CAPTURING
    line,            \* the cleaned line of the current turn of the loop
    out,             \* the blocks yielded so far, in order
    nread,           \* raw lines read from the file
    pc,              \* "reading" in the loop, "done" after the generator ends
    opened,          \* history: the (h1, h2) in effect at each start marker
                     \* and the fragments captured from it on
    tk_lines,        \* listup_wordlines: its argument
    full_text,       \* line 108
    idx,             \* characters of full_text the loop has consumed
    yougo,           \* line 109
    current_word,    \* line 110
    in_parentheses,  \* line 111
    tk_pc,           \* "idle", "scan" in the loop, "done" after the return
    pp_text,         \* preprocess_line: the raw line it is given (line 93)
    pp_once,         \* what it returns for pp_text
    pp_twice,        \* what it returns for pp_once
    pp_pc            \* "idle"; "start", "once", "twice" as it is applied;
                     \* "fed" after parse_syllabus has read pp_text

parser_vars == <<h1txt, h2txt, wordlines, line, out, nread, pc, opened>>

tk_vars == <<tk_lines, full_text, idx, yougo, current_word, in_parentheses, tk_pc>>

pp_vars == <<pp_text, pp_once, pp_twice, pp_pc>>

vars == <<parser_vars, tk_vars, pp_vars>>

----------------------------------------------------------------------------
(* The input domain of the parser: raw lines as the file iterator returns  *)
(* them, each ending in a line feed.                                       *)

MaxLines == 4

LF == <<"u000A">>

RawLines == {
    <<"1", ".", " ", "X">> \o LF,                          \* 1. X
    <<"2", ".", " ", "Y", " ", ".", ".", ".", ".", " ", "3">> \o LF,
                                                           \* 2. Y .... 3
    <<"(", "2", ")", " ", "X">> \o LF,                     \* (2) X
    <<"u3000", "uFF08", "uFF11", "uFF12", "uFF09", "Y">> \o LF,
                                        \* full-width: space ( 1 2 ) Y
    <<"u2460", "X">> \o LF,                                \* circled-1 X
    <<"(", "a", ")", " ", "X">> \o LF,                     \* (a) X
    Yougorei \o <<" ", "X", "u3001", "Y">> \o LF,          \* keyword X, Y
    Yougorei \o LF,                                        \* keyword alone
    Yougorei \o <<".", ".", ".", "1">> \o LF,              \* keyword...1
    <<"Y", "uFF08", "X", "u3001">> \o LF,                  \* Y ( X ,
    Daibunrui \o <<"1", ":", "X", " ">> \o Chuubunrui \o <<"2", "uFF1A", "Y">> \o LF,
    LF,                                                    \* an empty line
    <<"-", "1", "2", "-">> \o LF,                          \* a page number
    CopyrightMarker \o <<"-", "X">> \o LF                  \* a copyright line
}

----------------------------------------------------------------------------
(* parse_syllabus, one action per turn of "for line in f" and one for the  *)
(* end of the file.                                                        *)

ParserInit ==
    /\ h1txt = <<>>
    /\ h2txt = <<>>
    /\ wordlines = <<>>
    /\ line = <<>>
    /\ out = <<>>
    /\ nread = 0
    /\ pc = "reading"
    /\ opened = <<>>

\* the history of the captures after the line took branch b: a start
\* marker opens a new one with the context in effect and the remainder of
\* the line, a captured line joins the last one
Captured(b, l, hist, h1, h2) ==
    CASE b = "word_start" ->
            Append(hist, [h1 |-> h1, h2 |-> h2,
                          frags |-> <<strip(m_word_start(l).g1)>>])
      [] b = "capture" ->
            [hist EXCEPT ![Len(hist)].frags = Append(@, l)]
      [] OTHER -> hist

\* mutant: an empty cleaned line is not skipped
ProcessLine_no_skip(raw) ==
    /\ pc = "reading"
    /\ nread < MaxLines
    /\ nread' = nread + 1
    /\ pc' = pc
    /\ LET l == preprocess_line(raw)
       IN /\ line' = l
          /\ IF is_toc(l)
             THEN /\ out' = Append(out, TextBlock(l))
                  /\ UNCHANGED <<h1txt, h2txt, wordlines, opened>>
             ELSE LET closes == ClosesCapture(l, wordlines)
                      wl == AfterFlush(closes, wordlines)
                      b == Branch(l, wl)
                  IN /\ out' = out \o Flushed(closes, wordlines, h1txt, h2txt)
                                   \o Yielded(b, l)
                     /\ h1txt' = NextH1(b, l, h1txt)
                     /\ h2txt' = NextH2(b, l, h2txt)
                     /\ wordlines' = NextWordlines(b, l, wl)
                     /\ opened' = Captured(b, l, opened, h1txt, h2txt)

\* lines 144-192
ProcessLine(raw) ==
    /\ pc = "reading"
    /\ nread < MaxLines
    /\ nread' = nread + 1
    /\ pc' = pc
    /\ LET l == preprocess_line(raw)
       IN /\ line' = l
          /\ IF l = <<>>
             THEN UNCHANGED <<h1txt, h2txt, wordlines, out, opened>>
             ELSE IF is_toc(l)
             THEN /\ out' = Append(out, TextBlock(l))
                  /\ UNCHANGED <<h1txt, h2txt, wordlines, opened>>
             ELSE LET closes == ClosesCapture(l, wordlines)
                      wl == AfterFlush(closes, wordlines)
                      b == Branch(l, wl)
                  IN /\ out' = out \o Flushed(closes, wordlines, h1txt, h2txt)
                                   \o Yielded(b, l)
                     /\ h1txt' = NextH1(b, l, h1txt)
                     /\ h2txt' = NextH2(b, l, h2txt)
                     /\ wordlines' = NextWordlines(b, l, wl)
                     /\ opened' = Captured(b, l, opened, h1txt, h2txt)

\* mutant: the word list left open at the end of the file is not flushed
EndOfInput_no_flush ==
    /\ pc = "reading"
    /\ pc' = "done"
    /\ UNCHANGED <<h1txt, h2txt, wordlines, line, out, nread, opened>>

\* lines 194-196
EndOfInput ==
    /\ pc = "reading"
    /\ pc' = "done"
    /\ out' = IF wordlines # <<>>
              THEN Append(out, WordBlock(h1txt, h2txt, wordlines))
              ELSE out
    /\ UNCHANGED <<h1txt, h2txt, wordlines, line, nread, opened>>

TkIdle ==
    /\ tk_lines = <<>>
    /\ full_text = <<>>
    /\ idx = 0
    /\ yougo = <<>>
    /\ current_word = <<>>
    /\ in_parentheses = 0
    /\ tk_pc = "idle"

PreIdle ==
    /\ pp_text = <<>>
    /\ pp_once = <<>>
    /\ pp_twice = <<>>
    /\ pp_pc = "idle"

Init == ParserInit /\ TkIdle /\ PreIdle

Next ==
    \/ \E raw \in RawLines : ProcessLine(raw) /\ UNCHANGED <<tk_vars, pp_vars>>
    \/ EndOfInput /\ UNCHANGED <<tk_vars, pp_vars>>

Spec == Init /\ [][Next]_vars

----------------------------------------------------------------------------
(* listup_wordlines as a state machine: Init is the state after lines      *)
(* 108-111, ScanStep is one turn of the loop over full_text and ScanEnd    *)
(* the code after the loop.  Its argument is any list of at most two lines *)
(* over TokChars with at most MaxPassage characters in all, or the         *)
(* scenario passage.                                                       *)

MaxPassage == 4

TokChars == {"(", ")", "uFF08", "uFF09", "u3001", "uFF0C", " ", "X"}

\* the passages of exactly n characters
Passages(n) == [1..n -> TokChars]

\* the passage A, B(c, d), E with full-width brackets and ideographic commas
ScenarioPassage ==
    <<"A", "u3001", "B", "uFF08", "c", "u3001", "d", "uFF09", "u3001", "E">>

\* the argument: no line, one line, or one passage cut in two lines, or the
\* scenario passage as one line
TokInput(lines) ==
    \/ lines = <<>>
    \/ lines = <<ScenarioPassage>>
    \/ \E n \in 0..MaxPassage : \E t \in Passages(n) : lines = <<t>>
    \/ \E n \in 0..MaxPassage : \E t \in Passages(n) : \E k \in 0..n :
          lines = <<Take(t, k), Drop(t, k)>>

TkInit ==
    /\ TokInput(tk_lines)
    /\ full_text = Join(tk_lines)
    /\ idx = 0
    /\ yougo = <<>>
    /\ current_word = <<>>
    /\ in_parentheses = 0
    /\ tk_pc = "scan"

\* lines 113-126
ScanStep ==
    /\ tk_pc = "scan"
    /\ idx < Len(full_text)
    /\ LET st == ScanChar([yougo |-> yougo, current_word |-> current_word,
                           in_parentheses |-> in_parentheses],
                          full_text[idx + 1])
       IN /\ yougo' = st.yougo
          /\ current_word' = st.current_word
          /\ in_parentheses' = st.in_parentheses
    /\ idx' = idx + 1
    /\ UNCHANGED <<tk_lines, full_text, tk_pc>>

\* mutant: the word still open after the loop is not appended
ScanEnd_no_tail ==
    /\ tk_pc = "scan"
    /\ idx = Len(full_text)
    /\ tk_pc' = "done"
    /\ UNCHANGED <<tk_lines, full_text, idx, yougo, current_word, in_parentheses>>

\* lines 128-132
ScanEnd ==
    /\ tk_pc = "scan"
    /\ idx = Len(full_text)
    /\ yougo' = AppendWord(yougo, current_word)
    /\ tk_pc' = "done"
    /\ UNCHANGED <<tk_lines, full_text, idx, current_word, in_parentheses>>

InitTok == ParserInit /\ TkInit /\ PreIdle

NextTok ==
    \/ ScanStep /\ UNCHANGED <<parser_vars, pp_vars>>
    \/ ScanEnd /\ UNCHANGED <<parser_vars, pp_vars>>

SpecTok == InitTok /\ [][NextTok]_vars

----------------------------------------------------------------------------
(* preprocess_line on its own: it is applied to a raw line and applied     *)
(* again to what it returned; parse_syllabus then reads a file that holds  *)
(* at most MaxContext other lines and then that raw line.  A raw line is   *)
(* at most MaxJunk leading invisible characters, a body and a line end.    *)

MaxJunk == 2

MaxContext == 2

JunkChars == {" ", "u3000", "uFEFF", "u200B"}

PreBodies == {
    <<>>,
    <<"X">>,
    <<"1", ".", " ", "X">>,                                \* 1. X
    <<"X", ".", ".", ".", ".", ".", "1">>,                 \* X.....1
    <<".", ".", ".", ".">>,                                \* ....
    <<"-", "1", "-">>,                                     \* -1-
    <<"-", "1", "2", "3", "-">>,                           \* -123-
    <<"-", "1", "2", "3", "4", "-">>,                      \* -1234-
    <<"-", "uFF11", "-">>,                                 \* - full-width 1 -
    <<"-", "X", "-">>,                                     \* -X-
    <<"-", "1", "-", "X">>,                                \* -1-X
    CopyrightMarker,
    CopyrightMarker \o <<"-", "X">>,
    CopyrightMarker \o <<" ", ".", ".", ".", ".", "1">>,
    SubSeq(CopyrightMarker, 1, 9),                         \* Copyright
    SubSeq(CopyrightMarker, 1, 9) \o <<" ", "X">>,         \* Copyright X
    SubSeq(CopyrightMarker, 1, 13) \o <<"X">>              \* Copyright(c) X
}

PreEnds == {<<>>, LF, <<" ">>, <<" ">> \o LF}

\* the raw lines preprocess_line is given
PreInput(text) ==
    \E n \in 0..MaxJunk : \E junk \in [1..n -> JunkChars] :
        \E body \in PreBodies : \E end \in PreEnds :
            text = junk \o body \o end

\* the lines that come before the raw line in the file
PreContext == {
    <<"1", ".", " ", "X">> \o LF,                          \* 1. X
    Yougorei \o <<" ", "X", "u3001", "Y">> \o LF           \* keyword X, Y
}

PreInit ==
    /\ PreInput(pp_text)
    /\ pp_once = <<>>
    /\ pp_twice = <<>>
    /\ pp_pc = "start"

\* lines 93-99, applied to the raw line
CleanOnce ==
    /\ pp_pc = "start"
    /\ pp_once' = preprocess_line(pp_text)
    /\ pp_pc' = "once"
    /\ UNCHANGED <<pp_text, pp_twice>>

\* lines 93-99, applied to what the first application returned
CleanAgain ==
    /\ pp_pc = "once"
    /\ pp_twice' = preprocess_line(pp_once)
    /\ pp_pc' = "twice"
    /\ UNCHANGED <<pp_text, pp_once>>

\* lines 144-192 for a line that comes before the raw line
ReadContext(raw) ==
    /\ pp_pc = "twice"
    /\ nread < MaxContext
    /\ ProcessLine(raw)
    /\ UNCHANGED pp_vars

\* lines 144-192 for the raw line
ReadText ==
    /\ pp_pc = "twice"
    /\ ProcessLine(pp_text)
    /\ pp_pc' = "fed"
    /\ UNCHANGED <<pp_text, pp_once, pp_twice>>

InitPre == ParserInit /\ TkIdle /\ PreInit

NextPre ==
    \/ CleanOnce /\ UNCHANGED <<parser_vars, tk_vars>>
    \/ CleanAgain /\ UNCHANGED <<parser_vars, tk_vars>>
    \/ \E raw \in PreContext : ReadContext(raw) /\ UNCHANGED tk_vars
    \/ ReadText /\ UNCHANGED tk_vars

SpecPre == InitPre /\ [][NextPre]_vars

----------------------------------------------------------------------------
(* Vocabulary of the properties, stated from the patterns themselves and   *)
(* not from the parser's own classification.                               *)

Last(s) == s[Len(s)]

IsWordBlock(b) == b.type = "word_block"

WordBlocks(s) == SelectSeq(s, IsWordBlock)

\* a cleaned line ending in an ellipsis followed by a page number
EndsInEllipsisAndPage(l) ==
    \E k \in 4..Len(l) :
        /\ \A x \in k..Len(l) : IsDigit(l[x])
        /\ \E j \in 4..k :
              /\ \A x \in j..(k - 1) : IsSpace(l[x])
              /\ l[j - 1] = "." /\ l[j - 2] = "." /\ l[j - 3] = "."

\* the heading pattern a line matches: 1 class pair, 2 numbered section,
\* 3 parenthesized numeral, 4 circled numeral, 0 none
HeadingPattern(l) ==
    IF m_class_match(l).matched THEN 1
    ELSE IF m3_match(l).matched THEN 2
    ELSE IF m1_match(l).matched THEN 3
    ELSE IF m2_match(l).matched THEN 4
    ELSE 0

\* a line processed as a header of the given levels
HeaderLine(l, levels) ==
    l # <<>> /\ ~EndsInEllipsisAndPage(l) /\ HeadingPattern(l) \in levels

\* a line processed as a lettered subitem
SubitemLine(l) ==
    l # <<>> /\ ~EndsInEllipsisAndPage(l) /\ m_sub_match(l).matched

\* a line processed as a word-list start marker
StartMarkerLine(l) ==
    l # <<>> /\ ~EndsInEllipsisAndPage(l) /\ m_word_start(l).matched

\* this step is a turn of the loop over the file
ReadsLine == nread' = nread + 1

\* the WordBlock a flush of the present state must yield
PendingWordBlock ==
    [type |-> "word_block", h1 |-> h1txt, h2 |-> h2txt,
     words |-> listup_wordlines(wordlines)]

----------------------------------------------------------------------------
(* Properties of parse_syllabus (checked under Spec).                      *)

\* C1: every WordBlock yielded carries exactly the (h1, h2) pair that was
\* in effect when the start marker that opened its capture was processed:
\* the k-th WordBlock of the stream has the context recorded at the k-th
\* start marker, whatever was read in between.
C1_SnapshotContext ==
    LET wbs == WordBlocks(out)
    IN /\ Len(wbs) <= Len(opened)
       /\ \A k \in 1..Len(wbs) :
             wbs[k].h1 = opened[k].h1 /\ wbs[k].h2 = opened[k].h2

\* C1 witness: a WordBlock tagged with a non-empty h1 follows the Text
\* block of a table-of-contents line, and h1txt has changed since.
C1_Witness ==
    \E k \in 2..Len(out) :
        /\ out[k].type = "word_block"
        /\ out[k].h1 # <<>>
        /\ out[k].h1 # h1txt
        /\ out[k - 1].type = "text"
        /\ EndsInEllipsisAndPage(out[k - 1].text)

\* the block a header or subitem line yields for itself
OwnBlock(b, l) ==
    IF HeadingPattern(l) > 0
    THEN b.type = "header" /\ b.level = HeadingPattern(l)
    ELSE b = [type |-> "text", text |-> l]

\* C2: when a header line (level 1-4) or a lettered-subitem line is read
\* while a capture is open, exactly one WordBlock for the open capture is
\* yielded, immediately followed by the line's own Header/Text block, and
\* the buffer is cleared.
C2_FlushBeforeTrigger ==
    [][(/\ ReadsLine
        /\ wordlines # <<>>
        /\ (HeaderLine(line', 1..4) \/ SubitemLine(line')))
       => /\ Len(out') = Len(out) + 2
          /\ SubSeq(out', 1, Len(out)) = out
          /\ out'[Len(out) + 1] = PendingWordBlock
          /\ OwnBlock(out'[Len(out) + 2], line')
          /\ wordlines' = <<>>]_vars

\* C2 witness: the stream holds a WordBlock immediately followed by a
\* Header, and ends with a WordBlock immediately followed by the Text
\* block of a lettered-subitem line.
C2_Witness ==
    /\ Len(out) >= 4
    /\ \E k \in 1..(Len(out) - 2) :
          out[k].type = "word_block" /\ out[k + 1].type = "header"
    /\ out[Len(out) - 1].type = "word_block"
    /\ Last(out).type = "text"
    /\ m_sub_match(Last(out).text).matched
    /\ wordlines = <<>>

\* a non-empty cleaned line that is processed neither as a header nor as a
\* lettered subitem nor as a start marker
OtherLine(l) ==
    /\ l # <<>>
    /\ ~HeaderLine(l, 1..4)
    /\ ~SubitemLine(l)
    /\ ~StartMarkerLine(l)

\* every WordBlock yielded by a step is tokenized from the whole buffer as
\* it was before the step, and a step that yields none keeps what the
\* buffer held
BufferReachesWords ==
    /\ \A k \in (Len(out) + 1)..Len(out') :
          out'[k].type = "word_block" => wordlines # <<>> /\ out'[k] = PendingWordBlock
    /\ (\A k \in (Len(out) + 1)..Len(out') : out'[k].type # "word_block")
          => /\ Len(wordlines') >= Len(wordlines)
             /\ SubSeq(wordlines', 1, Len(wordlines)) = wordlines

\* C3 as stated: while a capture is open, every non-empty cleaned line that
\* is not a header, not a lettered subitem and not a start marker is
\* appended to the buffer, yields no block, and reaches the words of the
\* WordBlock of that capture.
C3_Original ==
    [][/\ (ReadsLine /\ wordlines # <<>> /\ OtherLine(line'))
          => out' = out /\ wordlines' = Append(wordlines, line')
       /\ BufferReachesWords]_vars

\* C3 amended: the same for every such line that is not a table-of-contents
\* line; a table-of-contents line read while a capture is open yields one
\* Text block and is not captured.  The WordBlock of the capture is
\* tokenized from the whole buffer, the appended lines included.
C3_CaptureAppends ==
    [][/\ (ReadsLine /\ wordlines # <<>> /\ OtherLine(line')
             /\ ~EndsInEllipsisAndPage(line'))
          => out' = out /\ wordlines' = Append(wordlines, line')
       /\ (ReadsLine /\ wordlines # <<>> /\ line' # <<>>
             /\ EndsInEllipsisAndPage(line'))
          => out' = Append(out, [type |-> "text", text |-> line'])
             /\ wordlines' = wordlines
       /\ BufferReachesWords]_vars

\* C3 witness: the input has ended, the capture held a line appended after
\* its start marker, and the final WordBlock has the words of the whole
\* buffer, the appended line's among them.
C3_Witness ==
    /\ pc = "done"
    /\ Len(wordlines) >= 2
    /\ OtherLine(Last(wordlines))
    /\ Last(out).type = "word_block"
    /\ Last(out).words = listup_wordlines(wordlines)
    /\ Last(out).words # listup_wordlines(Take(wordlines, Len(wordlines) - 1))

\* C4: if the input ends while a capture is open, exactly one final
\* WordBlock is yielded, as the last block of the stream, with the (h1, h2)
\* current at the end of the input; if no capture is open, the end of the
\* input yields nothing.
C4_FlushAtEnd ==
    [][(pc = "reading" /\ pc' = "done")
       => IF wordlines # <<>>
          THEN out' = Append(out, PendingWordBlock)
          ELSE out' = out]_vars

\* C4 witness: the generator has ended with a capture open under a
\* non-empty heading context, and the last block is its WordBlock.
C4_Witness ==
    /\ pc = "done"
    /\ wordlines # <<>>
    /\ h1txt # <<>>
    /\ h2txt # <<>>
    /\ Last(out).type = "word_block"
    /\ Last(out).h1 = h1txt
    /\ Last(out).h2 = h2txt

\* C5: a start marker read while a capture is open first flushes the open
\* capture as one WordBlock (of the fragments captured before that line),
\* then opens a new capture whose buffer holds only the remainder of the
\* new marker line after the keyword; the parser is CAPTURING afterwards.
C5_MarkerWhileCapturing ==
    [][(ReadsLine /\ wordlines # <<>> /\ StartMarkerLine(line'))
       => /\ out' = Append(out, PendingWordBlock)
          /\ Len(wordlines') = 1
          /\ wordlines'[1] = strip(Drop(line', Len(Yougorei)))]_vars

\* C5 witness: the line just read is a second start marker; the stream
\* ends with the WordBlock of the first capture, which has two words, and
\* the buffer holds one fragment.
C5_Witness ==
    /\ pc = "reading"
    /\ StartMarkerLine(line)
    /\ Len(opened) >= 2
    /\ Len(out) >= 1
    /\ Last(out).type = "word_block"
    /\ Len(Last(out).words) >= 2
    /\ Len(wordlines) = 1

\* the positions of the level 2 and level 3 headers in the stream
ContextHeaders(s) ==
    {k \in 1..Len(s) : s[k].type = "header" /\ s[k].level \in {2, 3}}

\* C6: once a level 2 header has been processed, h2 is empty and stays
\* empty through every later line until a level 3 header is processed:
\* whenever the latest level 2 or 3 header of the stream is a level 2
\* one, h2txt is empty.
C6_H2EmptyAfterLevel2 ==
    LET K == ContextHeaders(out)
    IN K # {} =>
          LET last == CHOOSE k \in K : \A j \in K : j <= k
          IN out[last].level = 2 => h2txt = <<>>

\* C6 witness: a level 3 header with a non-empty text was followed by a
\* level 2 header, blocks of later lines followed that one, and h2txt is
\* empty.
C6_Witness ==
    /\ h2txt = <<>>
    /\ h1txt # <<>>
    /\ \E j \in 1..Len(out) : \E k \in (j + 1)..(Len(out) - 1) :
          /\ out[j].type = "header" /\ out[j].level = 3
          /\ Len(out[j].text) > 4
          /\ out[k].type = "header" /\ out[k].level = 2
          /\ \A x \in (k + 1)..Len(out) :
                out[x].type = "header" => out[x].level = 4

\* C7: the heading context changes only on header lines of level 1, 2 or
\* 3; a level 1 header empties both h1 and h2; h2 is empty after every
\* line that changes h1.  Every other line (level 4 headers, lettered
\* subitems, table-of-contents lines, start markers, captured lines, plain
\* and empty lines) and the end of the input leave (h1, h2) unchanged.
C7_ContextFrame ==
    [][/\ (h1txt' # h1txt \/ h2txt' # h2txt)
          => ReadsLine /\ HeaderLine(line', 1..3)
       /\ (ReadsLine /\ HeaderLine(line', {1}))
          => h1txt' = <<>> /\ h2txt' = <<>>
       /\ h1txt' # h1txt => h2txt' = <<>>]_vars

\* C7 witness: a level 4 header has just been processed under a context
\* with both h1 and h2 non-empty.
C7_Witness ==
    /\ HeaderLine(line, {4})
    /\ Len(out) >= 3
    /\ Last(out).type = "header"
    /\ Last(out).level = 4
    /\ h1txt # <<>>
    /\ h2txt # <<>>

\* the free text of a numbered-section line: what follows the digits, the
\* period and the white space after it
SectionText(l) == strip(LStripBy(Drop(l, RunEnd(l, 1, Digit)), Space))

\* the numeral and the free text of a parenthesized-numeral line
ParenNumeral(l) == SubSeq(l, 2, RunEnd(l, 2, Digit) - 1)

ParenText(l) == strip(Drop(l, RunEnd(l, 2, Digit)))

\* C8: a level 2 header sets h1 to its trimmed free text and yields
\* Header{level=2}; a level 3 header sets h2 to its trimmed free text,
\* leaves h1 unchanged and yields Header{level=3} with the text
\* "(" + numeral + ") " + free text.  So "1. X" gives h1 = "X", and "(2) X"
\* after no prior header gives Header{level=3, text="(2) X"}, h2 = "X" and
\* h1 = "".
C8_HeaderEffects ==
    [][/\ (ReadsLine /\ HeaderLine(line', {2}))
          => /\ h1txt' = SectionText(line')
             /\ Last(out').type = "header"
             /\ Last(out').level = 2
       /\ (ReadsLine /\ HeaderLine(line', {3}))
          => /\ h2txt' = ParenText(line')
             /\ h1txt' = h1txt
             /\ Last(out') = [type |-> "header", level |-> 3,
                              text |-> <<"(">> \o ParenNumeral(line')
                                       \o <<")", " ">> \o ParenText(line')]
       /\ (ReadsLine /\ line' = <<"1", ".", " ", "X">>)
          => h1txt' = <<"X">>
       /\ (ReadsLine /\ line' = <<"(", "2", ")", " ", "X">> /\ out = <<>>
             /\ wordlines = <<>>)
          => /\ out' = <<[type |-> "header", level |-> 3,
                          text |-> <<"(", "2", ")", " ", "X">>]>>
             /\ h2txt' = <<"X">>
             /\ h1txt' = <<>>]_vars

\* C8 witness: a level 3 header written with full-width parentheses has
\* just been processed under a non-empty h1; its Header text starts with a
\* half-width parenthesis and h2 is its free text.
C8_Witness ==
    /\ HeaderLine(line, {3})
    /\ line[1] = "uFF08"
    /\ h1txt # <<>>
    /\ h2txt = <<"Y">>
    /\ Last(out).type = "header"
    /\ Last(out).level = 3
    /\ Last(out).text[1] = "("

\* C9: a table-of-contents line always yields exactly one Text block and no
\* Header block and never changes (h1, h2), also when it matches a heading
\* pattern or the start-marker pattern, whether or not a capture is open.
C9_TocIsText ==
    [][(ReadsLine /\ line' # <<>> /\ EndsInEllipsisAndPage(line'))
       => /\ out' = Append(out, [type |-> "text", text |-> line'])
          /\ h1txt' = h1txt
          /\ h2txt' = h2txt]_vars

\* C9 witness: a table-of-contents line that matches the numbered-section
\* pattern has just been read while a capture was open; it yielded a Text
\* block, the capture is still open, and a table-of-contents line matching
\* the start-marker pattern yielded a Text block before it.
C9_Witness ==
    /\ EndsInEllipsisAndPage(line)
    /\ m3_match(line).matched
    /\ wordlines # <<>>
    /\ Len(out) >= 2
    /\ Last(out) = [type |-> "text", text |-> line]
    /\ \E k \in 1..(Len(out) - 1) :
          /\ out[k].type = "text"
          /\ EndsInEllipsisAndPage(out[k].text)
          /\ m_word_start(out[k].text).matched

\* C14: a line that is empty after preprocessing never yields a block and
\* leaves the whole parser state (h1, h2, the capture buffer and with it
\* SCANNING/CAPTURING) unchanged; it neither closes nor extends an open
\* capture.
C14_EmptyLineSkipped ==
    [][(ReadsLine /\ line' = <<>>)
       => /\ out' = out
          /\ h1txt' = h1txt
          /\ h2txt' = h2txt
          /\ wordlines' = wordlines
          /\ opened' = opened
          /\ pc' = pc]_vars

\* C14 witness: an empty line has just been read while a capture was open
\* under a non-empty h1; no block has been yielded since the start marker
\* and the capture is still open.
C14_Witness ==
    /\ pc = "reading"
    /\ nread >= 3
    /\ line = <<>>
    /\ wordlines # <<>>
    /\ h1txt # <<>>
    /\ Len(opened) = 1
    /\ WordBlocks(out) = <<>>

\* a header of level 1 to 4 or a text block
HeaderOrText(b) ==
    \/ b.type = "header" /\ b.level \in 1..4
    \/ b.type = "text"

\* C15: classification is total: every non-empty cleaned line read while
\* no capture is open yields exactly one block, a Header of level 1-4 or a
\* Text, unless it is a start marker, and then it yields no block and
\* opens a capture; a line matching no pattern yields Text{text = line}.
C15_ClassificationTotal ==
    [][(ReadsLine /\ wordlines = <<>> /\ line' # <<>>)
       => IF StartMarkerLine(line')
          THEN out' = out /\ wordlines' # <<>>
          ELSE /\ Len(out') = Len(out) + 1
               /\ SubSeq(out', 1, Len(out)) = out
               /\ HeaderOrText(Last(out'))
               /\ wordlines' = <<>>
               /\ (/\ HeadingPattern(line') = 0
                   /\ ~m_sub_match(line').matched
                   /\ ~m_word_start(line').matched)
                  => Last(out') = [type |-> "text", text |-> line']]_vars

\* C15 witness: with no capture opened so far, a level 1 header and a
\* level 2 or 3 header have been yielded and then a line matching no
\* pattern, not even the table-of-contents one, has just yielded a Text
\* block.
C15_Witness ==
    /\ opened = <<>>
    /\ Len(out) >= 3
    /\ \E j \in 1..Len(out) : out[j].type = "header" /\ out[j].level = 1
    /\ \E j \in 1..Len(out) : out[j].type = "header" /\ out[j].level \in {2, 3}
    /\ HeadingPattern(line) = 0
    /\ ~m_sub_match(line).matched
    /\ ~m_word_start(line).matched
    /\ ~EndsInEllipsisAndPage(line)
    /\ Last(out) = [type |-> "text", text |-> line]

\* C18: the WordBlocks yielded are those of the captures closed so far, one
\* for each start marker in order, the k-th tokenized from exactly the
\* fragments captured from the k-th start marker to its close; while the
\* file is read the buffer holds the fragments of the open capture only
\* and is empty when none is open (so no fragment reaches two WordBlocks);
\* for a complete input there are as many WordBlocks as start markers.
C18_OneBlockPerMarker ==
    LET wbs == WordBlocks(out)
        n == Len(opened)
    IN /\ Len(wbs) <= n
       /\ \A k \in 1..Len(wbs) :
             wbs[k].words = listup_wordlines(opened[k].frags)
       /\ pc = "done" => Len(wbs) = n
       /\ pc = "reading" =>
             IF wordlines = <<>>
             THEN Len(wbs) = n
             ELSE Len(wbs) = n - 1 /\ wordlines = opened[n].frags

\* C18 witness: the input is complete with two start markers read, the
\* first capture holding a line captured after its marker, and two
\* WordBlocks with different words yielded.
C18_Witness ==
    /\ pc = "done"
    /\ Len(opened) = 2
    /\ Len(opened[1].frags) >= 2
    /\ Len(WordBlocks(out)) = 2
    /\ WordBlocks(out)[1].words # WordBlocks(out)[2].words
    /\ WordBlocks(out)[2].words # <<>>

----------------------------------------------------------------------------
(* Properties of listup_wordlines (checked under SpecTok).                 *)

\* a term with nothing but white space in it, the empty term included
Blank(term) == \A i \in 1..Len(term) : IsSpace(term[i])

\* C10: for every list of input lines, listup_wordlines returns no empty
\* and no whitespace-only term (also for no line at all, for delimiters
\* only and for white space only).
C10_NoBlankTerm ==
    tk_pc = "done" => \A i \in 1..Len(yougo) : ~Blank(yougo[i])

\* C10 witness: the passage starts with a blank segment closed by a
\* delimiter at nesting level 0 and ends with another delimiter, and the
\* call has returned a non-empty list.
C10_Witness ==
    /\ tk_pc = "done"
    /\ Len(full_text) >= 3
    /\ full_text[1] = " "
    /\ IsDelimiter(full_text[2])
    /\ IsDelimiter(Last(full_text))
    /\ yougo # <<>>

\* the passage the call is given: its lines one after the other
RECURSIVE Concat(_)
Concat(lines) ==
    IF Len(lines) = 0 THEN <<>>
    ELSE Concat(SubSeq(lines, 1, Len(lines) - 1)) \o lines[Len(lines)]

Passage == Concat(tk_lines)

\* the positions of the opening and of the closing brackets among the
\* first i characters of t
OpensIn(t, i) == {j \in 1..i : t[j] \in {"(", "uFF08"}}

ClosesIn(t, i) == {j \in 1..i : t[j] \in {")", "uFF09"}}

\* C11: at every step of the character scan the nesting counter is >= 0,
\* for every input, also with more closing than opening brackets; a
\* closing bracket read at level 0 leaves the counter at 0 and the scan
\* goes on (no error).
C11_DepthNeverNegative ==
    [][/\ in_parentheses >= 0
       /\ in_parentheses' >= 0
       /\ (/\ tk_pc = "scan"
           /\ idx' = idx + 1
           /\ in_parentheses = 0
           /\ full_text[idx'] \in {")", "uFF09"})
          => /\ in_parentheses' = 0
             /\ tk_pc' = "scan"
             /\ current_word' = Append(current_word, full_text[idx'])]_vars

\* C11 witness: the call has returned for a passage that starts with a
\* closing bracket and has more closing than opening brackets.
C11_Witness ==
    /\ tk_pc = "done"
    /\ Len(full_text) >= 3
    /\ full_text[1] \in {")", "uFF09"}
    /\ Cardinality(ClosesIn(full_text, Len(full_text)))
          > Cardinality(OpensIn(full_text, Len(full_text))) + 1
    /\ in_parentheses = 0
    /\ yougo # <<>>

\* the nesting depth after the first i characters of t: up on an opening
\* bracket of either width, down on a closing one, never below 0
RECURSIVE DepthAfter(_, _)
DepthAfter(t, i) ==
    IF i = 0 THEN 0
    ELSE LET d == DepthAfter(t, i - 1)
         IN IF i \in OpensIn(t, i) THEN d + 1
            ELSE IF i \in ClosesIn(t, i) /\ d > 0 THEN d - 1
            ELSE d

\* the positions where the passage is cut: the commas at depth 0
CutPoints(t) ==
    {i \in 1..Len(t) : t[i] \in {"u3001", "uFF0C"} /\ DepthAfter(t, i) = 0}

\* the segments of t from position i on, cut at the cut points
RECURSIVE SegmentsFrom(_, _)
SegmentsFrom(t, i) ==
    LET later == {c \in CutPoints(t) : c >= i}
    IN IF later = {} THEN <<SubSeq(t, i, Len(t))>>
       ELSE LET c == CHOOSE x \in later : \A y \in later : x <= y
            IN <<SubSeq(t, i, c - 1)>> \o SegmentsFrom(t, c + 1)

Segments(t) == SegmentsFrom(t, 1)

NotEmpty(term) == term # <<>>

\* the trimmed segments that are not empty, in order of appearance
ExpectedTerms(t) ==
    LET segs == Segments(t)
    IN SelectSeq([k \in 1..Len(segs) |-> strip(segs[k])], NotEmpty)

\* C12: listup_wordlines returns exactly the non-empty trimmed segments of
\* the passage cut at every comma (ideographic or full-width) at nesting
\* depth 0, in order of appearance; a comma at depth > 0 never splits a
\* term and stays inside it, so A, B(c, d), E yields [A, B(c, d), E].
C12_TermsAreSegments ==
    tk_pc = "done" =>
        /\ yougo = ExpectedTerms(Passage)
        /\ Passage = ScenarioPassage
              => yougo = << <<"A">>,
                            <<"B", "uFF08", "c", "u3001", "d", "uFF09">>,
                            <<"E">> >>

\* C12 witness: the call has returned three terms for the scenario passage,
\* the second one with a comma inside its brackets.
C12_Witness ==
    /\ tk_pc = "done"
    /\ Passage = ScenarioPassage
    /\ Len(yougo) = 3
    /\ \E i \in 1..Len(yougo[2]) : yougo[2][i] = "u3001"

\* a passage with balanced brackets: as many closing as opening ones, and
\* never more closing than opening ones in a prefix
Balanced(t) ==
    /\ \A i \in 1..Len(t) :
          Cardinality(ClosesIn(t, i)) <= Cardinality(OpensIn(t, i))
    /\ Cardinality(ClosesIn(t, Len(t))) = Cardinality(OpensIn(t, Len(t)))

NotSpace(c) == ~IsSpace(c)

\* s with its white space removed
NoSpace(s) == SelectSeq(s, NotSpace)

\* the terms from the k-th on, the delimiter ds[j] between terms j and j+1
RECURSIVE JoinTerms(_, _, _)
JoinTerms(terms, ds, k) ==
    IF k > Len(terms) THEN <<>>
    ELSE (IF k > 1 THEN <<ds[k - 1]>> ELSE <<>>)
         \o terms[k] \o JoinTerms(terms, ds, k + 1)

\* the returned terms, joined in order with a delimiter at each boundary
\* between consecutive terms, are the passage up to white space
RoundTrips ==
    \E ds \in [1..(Len(yougo) - 1) -> {"u3001", "uFF0C"}] :
        NoSpace(JoinTerms(yougo, ds, 1)) = NoSpace(Passage)

\* no segment between the cuts of the passage is blank: no comma at depth
\* 0 at its start or at its end, and no two with only white space between
NoBlankSegment(t) ==
    \A k \in 1..Len(Segments(t)) : ~Blank(Segments(t)[k])

\* C13 as stated: for every passage with balanced brackets, joining the
\* returned terms in order, with the delimiter that separated them put
\* back at each boundary between consecutive terms, gives the passage
\* once white space is removed from both.
C13_Original ==
    (tk_pc = "done" /\ Balanced(Passage)) => RoundTrips

\* C13 amended: the same for every passage with balanced brackets that is
\* blank or has no blank segment between its depth-0 commas; the commas
\* around a blank segment are dropped with it and do not come back.
C13_RoundTrip ==
    (/\ tk_pc = "done"
     /\ Balanced(Passage)
     /\ (Blank(Passage) \/ NoBlankSegment(Passage)))
    => RoundTrips

\* C13 witness: the call has returned two terms for a passage with
\* balanced brackets, white space in it and no blank segment.
C13_Witness ==
    /\ tk_pc = "done"
    /\ Balanced(Passage)
    /\ NoBlankSegment(Passage)
    /\ Len(yougo) = 2
    /\ \E i \in 1..Len(Passage) : Passage[i] = " "
    /\ Len(NoSpace(Passage)) < Len(Passage)

\* C17: the lines are one passage: the result for a list of lines is the
\* result for the single string of the lines concatenated with no
\* separator; a line boundary is no delimiter, and the nesting counter
\* carries over it, so a bracket opened on one line and closed on a later
\* one protects every comma in between.
C17_LinesAreOnePassage ==
    /\ tk_pc # "idle" =>
          /\ idx <= Len(Passage)
          /\ in_parentheses = DepthAfter(Passage, idx)
    /\ tk_pc = "done" =>
          /\ idx = Len(Passage)
          /\ yougo = listup_wordlines(<<Passage>>)

\* C17 witness: the call was given two lines, a bracket opened on the
\* first and closed on the second after a comma, and it has returned that
\* whole passage as one term.
C17_Witness ==
    /\ tk_pc = "done"
    /\ Len(tk_lines) = 2
    /\ \E i \in 1..Len(tk_lines[1]) : tk_lines[1][i] \in {"(", "uFF08"}
    /\ \E i \in 1..Len(tk_lines[2]) : \E j \in (i + 1)..Len(tk_lines[2]) :
          /\ tk_lines[2][i] \in {"u3001", "uFF0C"}
          /\ tk_lines[2][j] \in {")", "uFF09"}
    /\ yougo = <<Passage>>

----------------------------------------------------------------------------
(* Properties of preprocess_line (checked under SpecPre).                  *)

CopyrightWord == <<"C", "o", "p", "y", "r", "i", "g", "h", "t">>

\* the marker of the footer line: Copyright(c) Information
FooterMarker ==
    CopyrightWord \o <<"(", "c", ")", " ", "I", "n", "f", "o", "r", "m", "a",
                       "t", "i", "o", "n">>

BeginsWith(s, p) == Len(s) >= Len(p) /\ SubSeq(s, 1, Len(p)) = p

\* the raw line is cleaned to the empty string, and parse_syllabus, when it
\* reads it, yields no block and changes no parser state
CleanedAway ==
    /\ pp_pc' # "start" => pp_once' = <<>>
    /\ (ReadsLine /\ pp_pc' = "fed")
          => /\ line' = <<>>
             /\ out' = out
             /\ h1txt' = h1txt
             /\ h2txt' = h2txt
             /\ wordlines' = wordlines
             /\ pc' = pc

\* C16 as stated: every raw line that begins with the literal marker
\* "Copyright" is cleaned to the empty string by preprocess_line and
\* therefore yields no block and changes no parser state.
C16_Original ==
    [][BeginsWith(pp_text, CopyrightWord) => CleanedAway]_vars

\* C16 amended: the same for every raw line that begins with the literal
\* marker "Copyright(c) Information".
C16_CopyrightLineRemoved ==
    [][BeginsWith(pp_text, FooterMarker) => CleanedAway]_vars

\* C16 witness: a raw line that begins with the marker and goes on after it
\* was cleaned to the empty string and has been read while a capture was
\* open under a non-empty h1; the capture is as it was.
C16_Witness ==
    /\ pp_pc = "fed"
    /\ BeginsWith(pp_text, FooterMarker)
    /\ Len(pp_text) > Len(FooterMarker) + 1
    /\ pp_once = <<>>
    /\ line = <<>>
    /\ h1txt # <<>>
    /\ Len(wordlines) = 1
    /\ out # <<>>

\* a page-number artifact: hyphen, one to three digits, hyphen
PageArtifact(s) ==
    /\ Len(s) \in 3..5
    /\ s[1] = "-"
    /\ s[Len(s)] = "-"
    /\ \A i \in 2..(Len(s) - 1) : IsDigit(s[i])

\* C19 as stated: preprocess_line is idempotent: for every raw line x,
\* preprocess_line(preprocess_line(x)) = preprocess_line(x), also when a
\* page-number artifact or a Copyright marker is preceded by white space, a
\* full-width space, a byte-order mark or a zero-width space.
C19_Original ==
    pp_pc \in {"twice", "fed"} => pp_twice = pp_once

\* C19 amended: preprocess_line(preprocess_line(x)) = preprocess_line(x)
\* for every raw line x whose cleaned form is neither a page-number
\* artifact nor begins with the marker "Copyright(c) Information"; for the
\* other lines (the artifact or the marker preceded by leading invisible
\* characters, or the artifact followed by white space other than the one
\* line feed) the second application returns the empty string.
C19_IdempotentUnlessArtifact ==
    pp_pc \in {"twice", "fed"} =>
        IF PageArtifact(pp_once) \/ BeginsWith(pp_once, FooterMarker)
        THEN pp_twice = <<>>
        ELSE pp_twice = pp_once

\* C19 witness: a raw line with a byte-order mark in front, a long run of
\* periods and a line feed at its end was cleaned to a shorter non-empty
\* line, and cleaning that line again returned it unchanged.
C19_Witness ==
    /\ pp_pc = "twice"
    /\ Len(pp_text) >= 2
    /\ pp_text[1] = "uFEFF"
    /\ pp_text[Len(pp_text)] = "u000A"
    /\ pp_once = <<"X", ".", ".", ".", "1">>
    /\ pp_twice = pp_once

============================================================================
